---- MODULE Spec2Model ----
(***************************************************************************)
(* Trace enrichment and completeness tracking of opentonapi's core         *)
(* package (src/unnamed/part_000): Trace.InProgress,                       *)
(* Trace.countUncompleted, visit and CollectAdditionalInfo.                *)
(*                                                                         *)
(* A trace tree lives in a heap of Trace records addressed by node id (the *)
(* *Trace pointers of the Go code).  CollectAdditionalInfo is split at its *)
(* three calls into the InformationSource, the only points where the       *)
(* outside world acts during a call.                                       *)
(***************************************************************************)
EXTENDS Integers, Sequences, FiniteSets, TLC

\* ------------------------------------------------------------------ bounds
\* Nodes of a tree whose nodes draw their content from the full content sets,
\* and the account addresses 1..MaxAddr of that content.
MaxNodes == 1
MaxAddr == 1
\* Nodes of a tree whose nodes carry pairwise distinct addresses (node t at
\* address t).
MaxWalkNodes == 3
\* Nodes of a tree whose nodes share addresses, and the number of addresses
\* such a tree spreads its nodes over.
MaxOrderNodes == 4
MaxPeriod == 2
\* Nodes the tree builder assembles, and outbound messages of one transaction.
MaxBuildNodes == 3
MaxOut == 2

\* ------------------------------------------------------- values and types
\* A nil pointer / absent optional is the empty tuple, a set one a 1-tuple.
None == <<>>
Some(x) == <<x>>

Addr == 1..MaxAddr
Errors == {"context canceled", "source unavailable"}

JettonTransferMsgOp == "JettonTransfer"
OtherMsgOp == "TextComment"
NftSaleGetgems == "nft_sale_getgems"
NftSale == "nft_sale"

root == 1

VARIABLES
    heap,              \* node id -> Trace (the tree rooted at root)
    source,            \* the answers the InformationSource holds
    pc,                \* position inside CollectAdditionalInfo
    infoSource,        \* the infoSource argument of the current call
    jettonWallets,     \* locals of CollectAdditionalInfo
    getGemsContracts,
    basicNftSale,
    masters,
    getGems,
    basicNftSales,
    err,               \* the value the last call returned
    log,               \* history: walks and queries of the current call
    entry,             \* history: the heap as the current call received it
    lastOK,            \* history: the heap after the last successful run
    progress           \* the result of the last InProgress call

vars == <<heap, source, pc, infoSource, jettonWallets, getGemsContracts,
          basicNftSale, masters, getGems, basicNftSales, err, log, entry,
          lastOK, progress>>

locals == <<jettonWallets, getGemsContracts, basicNftSale, masters, getGems,
            basicNftSales>>

\* ------------------------------------------------------------ the program
Message(body, dest) == [DecodedBody |-> body, Destination |-> dest]

Trace(account, inMsg, outMsgs, ifaces, children, info) ==
    [Account |-> account, InMsg |-> inMsg, OutMsgs |-> outMsgs,
     AccountInterfaces |-> ifaces, Children |-> children,
     AdditionalInfo |-> info]

TraceAdditionalInfo == [JettonMaster |-> None, NftSaleContract |-> None]

NftSaleContract(price, owner) == [NftPrice |-> price, Owner |-> owner]

RECURSIVE countUncompleted(_, _)
RECURSIVE countChildren(_, _, _)
countChildren(h, cs, c) ==
    IF cs = <<>> THEN c
    ELSE countChildren(h, Tail(cs), c + countUncompleted(h, Head(cs)))

countUncompleted_SkipExternal(h, t) ==
    LET own == Len(SelectSeq(h[t].OutMsgs, LAMBDA m : m.Destination # None))
    IN  countChildren(h, h[t].Children, own)

RECURSIVE countOneLevel(_, _, _)
countOneLevel(h, cs, c) ==
    IF cs = <<>> THEN c
    ELSE countOneLevel(h, Tail(cs), c + Len(h[Head(cs)].OutMsgs))

countUncompleted_OneLevel(h, t) ==
    countOneLevel(h, h[t].Children, Len(h[t].OutMsgs))

countUncompleted(h, t) ==
    countChildren(h, h[t].Children, Len(h[t].OutMsgs))

InProgress(h, t) == countUncompleted(h, t) # 0

isDestinationJettonWallet_AnyOp(inMsg) ==
    IF inMsg = None \/ inMsg[1].DecodedBody = None THEN FALSE
    ELSE inMsg[1].Destination # None

isDestinationJettonWallet(inMsg) ==
    IF inMsg = None \/ inMsg[1].DecodedBody = None THEN FALSE
    ELSE /\ inMsg[1].DecodedBody[1].Operation = JettonTransferMsgOp
         /\ inMsg[1].Destination # None

hasInterface(interfacesList, name) ==
    \E i \in 1..Len(interfacesList) : interfacesList[i] = name

collectFn_Dedup(acc, h, t) ==
    LET add(s, x) == IF \E i \in 1..Len(s) : s[i] = x THEN s
                     ELSE Append(s, x)
    IN  [visited |-> Append(acc.visited, t),
         jettonWallets |->
            IF isDestinationJettonWallet(h[t].InMsg)
            THEN add(acc.jettonWallets, h[t].InMsg[1].Destination[1])
            ELSE acc.jettonWallets,
         getGemsContracts |->
            IF hasInterface(h[t].AccountInterfaces, NftSaleGetgems)
            THEN add(acc.getGemsContracts, h[t].Account)
            ELSE acc.getGemsContracts,
         basicNftSale |->
            IF hasInterface(h[t].AccountInterfaces, NftSale)
            THEN add(acc.basicNftSale, h[t].Account)
            ELSE acc.basicNftSale]

\* The callback of the first walk (lines 85-95); visited is history.
collectFn(acc, h, t) ==
    [visited |-> Append(acc.visited, t),
     jettonWallets |->
        IF isDestinationJettonWallet(h[t].InMsg)
        THEN Append(acc.jettonWallets, h[t].InMsg[1].Destination[1])
        ELSE acc.jettonWallets,
     getGemsContracts |->
        IF hasInterface(h[t].AccountInterfaces, NftSaleGetgems)
        THEN Append(acc.getGemsContracts, h[t].Account)
        ELSE acc.getGemsContracts,
     basicNftSale |->
        IF hasInterface(h[t].AccountInterfaces, NftSale)
        THEN Append(acc.basicNftSale, h[t].Account)
        ELSE acc.basicNftSale]

RECURSIVE visitCollect(_, _, _)
RECURSIVE visitCollectAll(_, _, _)
visitCollectAll(h, cs, acc) ==
    IF cs = <<>> THEN acc
    ELSE visitCollectAll(h, Tail(cs), visitCollect(h, Head(cs), acc))

visitCollect_PostOrder(h, t, acc) ==
    collectFn(visitCollectAll(h, h[t].Children, acc), h, t)

RECURSIVE collectLevels(_, _, _)
collectLevels(h, queue, acc) ==
    IF queue = <<>> THEN acc
    ELSE collectLevels(h, Tail(queue) \o h[Head(queue)].Children,
                       collectFn(acc, h, Head(queue)))

visitCollect_LevelOrder(h, t, acc) == collectLevels(h, <<t>>, acc)

visitCollect(h, t, acc) ==
    visitCollectAll(h, h[t].Children, collectFn(acc, h, t))

annotateFn_GetgemsLast(tr, m, g, b) ==
    LET a0 == TraceAdditionalInfo
        a1 == IF isDestinationJettonWallet(tr.InMsg)
                 /\ tr.InMsg[1].Destination[1] \in DOMAIN m
              THEN [a0 EXCEPT !.JettonMaster =
                                 Some(m[tr.InMsg[1].Destination[1]])]
              ELSE a0
        a2 == IF hasInterface(tr.AccountInterfaces, NftSale)
                 /\ tr.Account \in DOMAIN b
              THEN [a1 EXCEPT !.NftSaleContract = Some(b[tr.Account])]
              ELSE a1
        a3 == IF hasInterface(tr.AccountInterfaces, NftSaleGetgems)
                 /\ tr.Account \in DOMAIN g
              THEN [a2 EXCEPT !.NftSaleContract = Some(g[tr.Account])]
              ELSE a2
    IN  [tr EXCEPT !.AdditionalInfo = Some(a3)]

annotateFn_KeepOld(tr, m, g, b) ==
    LET a0 == IF tr.AdditionalInfo = None THEN TraceAdditionalInfo
              ELSE tr.AdditionalInfo[1]
        a1 == IF isDestinationJettonWallet(tr.InMsg)
                 /\ tr.InMsg[1].Destination[1] \in DOMAIN m
              THEN [a0 EXCEPT !.JettonMaster =
                                 Some(m[tr.InMsg[1].Destination[1]])]
              ELSE a0
        a2 == IF hasInterface(tr.AccountInterfaces, NftSaleGetgems)
                 /\ tr.Account \in DOMAIN g
              THEN [a1 EXCEPT !.NftSaleContract = Some(g[tr.Account])]
              ELSE a1
        a3 == IF hasInterface(tr.AccountInterfaces, NftSale)
                 /\ tr.Account \in DOMAIN b
              THEN [a2 EXCEPT !.NftSaleContract = Some(b[tr.Account])]
              ELSE a2
    IN  [tr EXCEPT !.AdditionalInfo = Some(a3)]

annotateFn_FreshTrace(tr, m, g, b) ==
    LET a0 == TraceAdditionalInfo
        a1 == IF isDestinationJettonWallet(tr.InMsg)
                 /\ tr.InMsg[1].Destination[1] \in DOMAIN m
              THEN [a0 EXCEPT !.JettonMaster =
                                 Some(m[tr.InMsg[1].Destination[1]])]
              ELSE a0
        a2 == IF hasInterface(tr.AccountInterfaces, NftSaleGetgems)
                 /\ tr.Account \in DOMAIN g
              THEN [a1 EXCEPT !.NftSaleContract = Some(g[tr.Account])]
              ELSE a1
        a3 == IF hasInterface(tr.AccountInterfaces, NftSale)
                 /\ tr.Account \in DOMAIN b
              THEN [a2 EXCEPT !.NftSaleContract = Some(b[tr.Account])]
              ELSE a2
    IN  Trace(tr.Account, tr.InMsg, <<>>, tr.AccountInterfaces, tr.Children,
              Some(a3))

\* The callback of the second walk (lines 108-125).
annotateFn(tr, m, g, b) ==
    LET a0 == TraceAdditionalInfo
        a1 == IF isDestinationJettonWallet(tr.InMsg)
                 /\ tr.InMsg[1].Destination[1] \in DOMAIN m
              THEN [a0 EXCEPT !.JettonMaster =
                                 Some(m[tr.InMsg[1].Destination[1]])]
              ELSE a0
        a2 == IF hasInterface(tr.AccountInterfaces, NftSaleGetgems)
                 /\ tr.Account \in DOMAIN g
              THEN [a1 EXCEPT !.NftSaleContract = Some(g[tr.Account])]
              ELSE a1
        a3 == IF hasInterface(tr.AccountInterfaces, NftSale)
                 /\ tr.Account \in DOMAIN b
              THEN [a2 EXCEPT !.NftSaleContract = Some(b[tr.Account])]
              ELSE a2
    IN  [tr EXCEPT !.AdditionalInfo = Some(a3)]

RECURSIVE visitAnnotate(_, _, _, _, _)
RECURSIVE visitAnnotateAll(_, _, _, _, _)
visitAnnotateAll(h, cs, m, g, b) ==
    IF cs = <<>> THEN h
    ELSE visitAnnotateAll(visitAnnotate(h, Head(cs), m, g, b), Tail(cs),
                          m, g, b)

visitAnnotate(h, t, m, g, b) ==
    LET h1 == [h EXCEPT ![t] = annotateFn(h[t], m, g, b)]
    IN  visitAnnotateAll(h1, h1[t].Children, m, g, b)

\* ------------------------------------------------ CollectAdditionalInfo
emptyAcc ==
    [visited |-> <<>>, jettonWallets |-> <<>>, getGemsContracts |-> <<>>,
     basicNftSale |-> <<>>]

Event(op, keys, e) == [op |-> op, keys |-> keys, err |-> e]

\* What a query of the source can return: its answer, or an error.
Replies(answer) ==
    {[value |-> answer, err |-> None]}
        \cup {[value |-> <<>>, err |-> Some(e)] : e \in Errors}

CollectNilSource_EmptyInfo ==
    /\ pc \in {"idle", "returned"}
    /\ infoSource' = None
    /\ entry' = heap
    /\ log' = <<>>
    /\ err' = None
    /\ pc' = "returned"
    /\ jettonWallets' = <<>> /\ getGemsContracts' = <<>> /\ basicNftSale' = <<>>
    /\ masters' = None /\ getGems' = None /\ basicNftSales' = None
    /\ progress' = None
    /\ heap' = visitAnnotate(heap, root, <<>>, <<>>, <<>>)
    /\ UNCHANGED <<source, lastOK>>

\* Lines 78-81: a nil source is a successful no-op.
CollectNilSource ==
    /\ pc \in {"idle", "returned"}
    /\ infoSource' = None
    /\ entry' = heap
    /\ log' = <<>>
    /\ err' = None
    /\ pc' = "returned"
    /\ jettonWallets' = <<>> /\ getGemsContracts' = <<>> /\ basicNftSale' = <<>>
    /\ masters' = None /\ getGems' = None /\ basicNftSales' = None
    /\ progress' = None
    /\ UNCHANGED <<heap, source, lastOK>>

CollectWalk_AnnotatesEarly ==
    /\ pc \in {"idle", "returned"}
    /\ infoSource' = Some("source")
    /\ entry' = heap
    /\ LET acc == visitCollect(heap, root, emptyAcc)
       IN  /\ jettonWallets' = acc.jettonWallets
           /\ getGemsContracts' = acc.getGemsContracts
           /\ basicNftSale' = acc.basicNftSale
           /\ log' = <<Event("collect", acc.visited, None)>>
    /\ masters' = None /\ getGems' = None /\ basicNftSales' = None
    /\ err' = None
    /\ pc' = "JettonMastersForWallets"
    /\ progress' = None
    /\ heap' = [t \in DOMAIN heap |->
                  [heap[t] EXCEPT !.AdditionalInfo = Some(TraceAdditionalInfo)]]
    /\ UNCHANGED <<source, lastOK>>

\* Lines 78-95: a non-nil source; the first walk collects the keys.
CollectWalk ==
    /\ pc \in {"idle", "returned"}
    /\ infoSource' = Some("source")
    /\ entry' = heap
    /\ LET acc == visitCollect(heap, root, emptyAcc)
       IN  /\ jettonWallets' = acc.jettonWallets
           /\ getGemsContracts' = acc.getGemsContracts
           /\ basicNftSale' = acc.basicNftSale
           /\ log' = <<Event("collect", acc.visited, None)>>
    /\ masters' = None /\ getGems' = None /\ basicNftSales' = None
    /\ err' = None
    /\ pc' = "JettonMastersForWallets"
    /\ progress' = None
    /\ UNCHANGED <<heap, source, lastOK>>

\* Lines 96-99.
QueryJettonMasters ==
    /\ pc = "JettonMastersForWallets"
    /\ \E r \in Replies(source.masters) :
         /\ log' = Append(log, Event("JettonMastersForWallets",
                                     jettonWallets, r.err))
         /\ IF r.err # None
            THEN /\ err' = r.err
                 /\ pc' = "returned"
                 /\ UNCHANGED masters
            ELSE /\ masters' = Some(r.value)
                 /\ pc' = "GetGemsContracts"
                 /\ UNCHANGED err
    /\ UNCHANGED <<heap, source, infoSource, jettonWallets, getGemsContracts,
                   basicNftSale, getGems, basicNftSales, entry, lastOK,
                   progress>>

QueryGetGems_IgnoreError ==
    /\ pc = "GetGemsContracts"
    /\ \E r \in Replies(source.getGems) :
         /\ log' = Append(log, Event("GetGemsContracts",
                                     getGemsContracts, r.err))
         /\ getGems' = Some(r.value)
         /\ pc' = "NftSaleContracts"
         /\ UNCHANGED err
    /\ UNCHANGED <<heap, source, infoSource, jettonWallets, getGemsContracts,
                   basicNftSale, masters, basicNftSales, entry, lastOK,
                   progress>>

\* Lines 100-103.
QueryGetGems ==
    /\ pc = "GetGemsContracts"
    /\ \E r \in Replies(source.getGems) :
         /\ log' = Append(log, Event("GetGemsContracts",
                                     getGemsContracts, r.err))
         /\ IF r.err # None
            THEN /\ err' = r.err
                 /\ pc' = "returned"
                 /\ UNCHANGED getGems
            ELSE /\ getGems' = Some(r.value)
                 /\ pc' = "NftSaleContracts"
                 /\ UNCHANGED err
    /\ UNCHANGED <<heap, source, infoSource, jettonWallets, getGemsContracts,
                   basicNftSale, masters, basicNftSales, entry, lastOK,
                   progress>>

\* Lines 104-107.
QueryNftSales ==
    /\ pc = "NftSaleContracts"
    /\ \E r \in Replies(source.basicNftSales) :
         /\ log' = Append(log, Event("NftSaleContracts", basicNftSale, r.err))
         /\ IF r.err # None
            THEN /\ err' = r.err
                 /\ pc' = "returned"
                 /\ UNCHANGED basicNftSales
            ELSE /\ basicNftSales' = Some(r.value)
                 /\ pc' = "annotate"
                 /\ UNCHANGED err
    /\ UNCHANGED <<heap, source, infoSource, jettonWallets, getGemsContracts,
                   basicNftSale, masters, getGems, entry, lastOK, progress>>

\* Lines 108-126: the second walk annotates every node; return nil.
AnnotateWalk ==
    /\ pc = "annotate"
    /\ heap' = visitAnnotate(heap, root, masters[1], getGems[1],
                             basicNftSales[1])
    /\ log' = Append(log, Event("annotate", <<>>, None))
    /\ lastOK' = Some(heap')
    /\ pc' = "returned"
    /\ UNCHANGED <<source, infoSource, jettonWallets, getGemsContracts,
                   basicNftSale, masters, getGems, basicNftSales, err, entry,
                   progress>>

\* Lines 27-29: a caller asks whether the trace rooted at t is in progress.
\* The frame of an earlier CollectAdditionalInfo call is gone by then.
InProgressCall ==
    /\ pc \in {"idle", "returned"}
    /\ \E t \in DOMAIN heap : progress' = Some([trace |-> t,
                                                result |-> InProgress(heap, t)])
    /\ pc' = "idle"
    /\ infoSource' = None
    /\ jettonWallets' = <<>> /\ getGemsContracts' = <<>> /\ basicNftSale' = <<>>
    /\ masters' = None /\ getGems' = None /\ basicNftSales' = None
    /\ err' = None
    /\ log' = <<>>
    /\ entry' = heap
    /\ UNCHANGED <<heap, source, lastOK>>

\* ------------------------------------------------------ the tree builder
\* The builder that assembles a trace is not part of the enrichment code; it
\* follows the data model: an outbound message matched to a child trace leaves
\* OutMsgs and the child joins Children; a message without a destination
\* account (an external one) is never matched.
RemoveAt(s, i) == SubSeq(s, 1, i - 1) \o SubSeq(s, i + 1, Len(s))

BuildMessages == {Message(None, None), Message(None, Some(1))}

SeqsUpTo(S, k) == UNION {[1..j -> S] : j \in 0..k}

MatchMessage ==
    /\ pc = "idle"
    /\ Len(heap) < MaxBuildNodes
    /\ \E t \in DOMAIN heap, i \in 1..MaxOut, out \in SeqsUpTo(BuildMessages, MaxOut) :
         /\ i <= Len(heap[t].OutMsgs)
         /\ heap[t].OutMsgs[i].Destination # None
         /\ LET msg == heap[t].OutMsgs[i]
                child == Len(heap) + 1
                parent == [heap[t] EXCEPT
                             !.OutMsgs = RemoveAt(@, i),
                             !.Children = Append(@, child)]
            IN  heap' = Append([heap EXCEPT ![t] = parent],
                               Trace(msg.Destination[1], Some(msg), out,
                                     <<>>, <<>>, None))
    /\ entry' = heap'
    /\ progress' = None
    /\ UNCHANGED <<source, pc, infoSource, locals, err, log, lastOK>>

\* ------------------------------------------------------- initial states
Range(s) == {s[i] : i \in 1..Len(s)}

\* The Children fields of every tree of n nodes rooted at node 1: each other
\* node is the child of exactly one node of smaller id, in any sibling order.
\* A tree of n nodes is a tree of n - 1 nodes with node n put anywhere among
\* the children of any of its nodes.
InsertAt(s, i, x) == SubSeq(s, 1, i - 1) \o <<x>> \o SubSeq(s, i, Len(s))

RECURSIVE Shapes(_)
Shapes(n) ==
    IF n = 1 THEN {<<<<>>>>}
    ELSE UNION {UNION {{Append([c EXCEPT ![t] = InsertAt(@, i, n)], <<>>) :
                          i \in 1..(Len(c[t]) + 1)} :
                       t \in 1..(n - 1)} :
                c \in Shapes(n - 1)}

PartialFns(K, V) == UNION {[D -> V] : D \in SUBSET K}

\* An annotation no answer of the source produces.
StaleInfo ==
    Some([JettonMaster |-> Some(1),
          NftSaleContract |-> Some(NftSaleContract(0, Some(1)))])

\* The answers of the source: the master of wallet d, the sale data of the
\* getgems variant, and the sale data of the basic variant.
MasterOf(d) == MaxAddr + MaxWalkNodes + d
GetgemsSales == {NftSaleContract(1, None)}
BasicSales == {NftSaleContract(1, None), NftSaleContract(2, Some(1))}

\* Inbound messages of every class isDestinationJettonWallet tells apart; the
\* destination of a message that is no jetton transfer is never read.
ContentInMsgs ==
    {None, Some(Message(None, Some(1))),
     Some(Message(Some([Operation |-> OtherMsgOp]), Some(1)))}
        \cup {Some(Message(Some([Operation |-> JettonTransferMsgOp]), d)) :
                d \in {None} \cup {Some(a) : a \in Addr}}

InterfaceLists ==
    {<<>>, <<NftSaleGetgems>>, <<NftSale>>, <<NftSaleGetgems, NftSale>>}

\* Node kinds that put a node into any two, or none, of the three key lists.
KindCycle ==
    <<[jetton |-> FALSE, ifaces |-> <<>>],
      [jetton |-> TRUE, ifaces |-> <<NftSaleGetgems>>],
      [jetton |-> TRUE, ifaces |-> <<NftSale>>],
      [jetton |-> FALSE, ifaces |-> <<NftSale, NftSaleGetgems>>]>>

WalkKinds == {KindCycle[i] : i \in 1..Len(KindCycle)}

\* The account of a node without a sale interface is never read.
ContentNodes ==
    {[InMsg |-> im, AccountInterfaces |-> il, Account |-> a] :
        im \in ContentInMsgs, il \in InterfaceLists, a \in Addr}
    \ {x \in [InMsg : ContentInMsgs, AccountInterfaces : {<<>>},
              Account : Addr \ {1}] : TRUE}

JettonKeys(h) ==
    {h[t].InMsg[1].Destination[1] :
        t \in {u \in DOMAIN h : isDestinationJettonWallet(h[u].InMsg)}}

SaleKeys(h, name) ==
    {h[t].Account :
        t \in {u \in DOMAIN h : hasInterface(h[u].AccountInterfaces, name)}}

idleState ==
    /\ pc = "idle"
    /\ infoSource = None
    /\ jettonWallets = <<>> /\ getGemsContracts = <<>> /\ basicNftSale = <<>>
    /\ masters = None /\ getGems = None /\ basicNftSales = None
    /\ err = None
    /\ log = <<>>
    /\ entry = heap
    /\ lastOK = None
    /\ progress = None

\* Trees of up to MaxNodes nodes with every node content, carrying the
\* annotations of an earlier run, and a source that answers any part of the
\* addresses the tree can ask for.
InitContent ==
    /\ \E n \in 1..MaxNodes : \E c \in Shapes(n) :
       \E f \in [1..n -> ContentNodes] :
         heap = [t \in 1..n |->
                    Trace(f[t].Account, f[t].InMsg, <<>>,
                          f[t].AccountInterfaces, c[t], StaleInfo)]
    /\ \E mk \in SUBSET JettonKeys(heap) :
       \E g \in PartialFns(SaleKeys(heap, NftSaleGetgems), GetgemsSales) :
       \E b \in PartialFns(SaleKeys(heap, NftSale), BasicSales) :
         source = [masters |-> [d \in mk |-> MasterOf(d)], getGems |-> g,
                   basicNftSales |-> b]
    /\ idleState

\* Trees of up to MaxWalkNodes nodes of every shape, node t at address t, at
\* most one node with an outbound message left, and a source that answers
\* every address.
InitWalk ==
    /\ \E n \in 1..MaxWalkNodes : \E c \in Shapes(n) :
       \E k \in [1..n -> WalkKinds] : \E o \in 0..n :
         heap = [t \in 1..n |->
                    Trace(t,
                          IF k[t].jetton
                          THEN Some(Message(
                                 Some([Operation |-> JettonTransferMsgOp]),
                                 Some(t)))
                          ELSE None,
                          IF t = o THEN <<Message(None, None)>> ELSE <<>>,
                          k[t].ifaces, c[t], None)]
    /\ source = [masters |-> [d \in JettonKeys(heap) |-> MasterOf(d)],
                 getGems |-> [a \in SaleKeys(heap, NftSaleGetgems) |->
                                NftSaleContract(1, None)],
                 basicNftSales |-> [a \in SaleKeys(heap, NftSale) |->
                                NftSaleContract(2, Some(a))]]
    /\ idleState

\* Trees of up to MaxOrderNodes nodes of every shape whose nodes share
\* addresses: node t lives at address 1 + t % q and received a message for
\* that address, a jetton transfer or not; the kinds follow each other along
\* the node ids, starting with any of them.  The source answers every
\* address asked for, so a node can find in an answer a key that another
\* node contributed.
InitOrder ==
    /\ \E n \in 1..MaxOrderNodes : \E c \in Shapes(n) :
       \E p \in 1..Len(KindCycle) : \E q \in 1..MaxPeriod :
         heap = [t \in 1..n |->
                    LET kind == KindCycle[((t + p) % Len(KindCycle)) + 1]
                        a == 1 + (t % q)
                    IN  Trace(a,
                              Some(Message(
                                 Some([Operation |->
                                         IF kind.jetton
                                         THEN JettonTransferMsgOp
                                         ELSE OtherMsgOp]),
                                 Some(a))),
                              <<>>, kind.ifaces, c[t], None)]
    /\ source = [masters |-> [d \in JettonKeys(heap) |-> MasterOf(d)],
                 getGems |-> [a \in SaleKeys(heap, NftSaleGetgems) |->
                                NftSaleContract(1, None)],
                 basicNftSales |-> [a \in SaleKeys(heap, NftSale) |->
                                NftSaleContract(2, Some(a))]]
    /\ idleState

Init == InitContent \/ InitWalk \/ InitOrder

\* A root transaction with its outbound messages, before any child is matched.
InitBuild ==
    /\ \E out \in SeqsUpTo(BuildMessages, MaxOut) :
         heap = <<Trace(1, None, out, <<>>, <<>>, None)>>
    /\ source = [masters |-> <<>>, getGems |-> <<>>, basicNftSales |-> <<>>]
    /\ idleState

\* ------------------------------------------------------- specifications
Next ==
    \/ CollectNilSource
    \/ CollectWalk
    \/ QueryJettonMasters
    \/ QueryGetGems
    \/ QueryNftSales
    \/ AnnotateWalk
    \/ InProgressCall

Spec == Init /\ [][Next]_vars

NextBuild ==
    \/ MatchMessage
    \/ InProgressCall

SpecBuild == InitBuild /\ [][NextBuild]_vars

\* ------------------------------------------------------------ properties
\* The nodes of the subtree rooted at t: t and everything below it.
RECURSIVE Reach(_, _)
Reach(h, S) ==
    LET T == S \cup UNION {Range(h[x].Children) : x \in S}
    IN  IF T = S THEN S ELSE Reach(h, T)

Subtree(h, t) == Reach(h, {t})

RECURSIVE SumOutMsgs(_, _)
SumOutMsgs(h, S) ==
    IF S = {} THEN 0
    ELSE LET x == CHOOSE y \in S : TRUE
         IN  Len(h[x].OutMsgs) + SumOutMsgs(h, S \ {x})

Successful == pc = "returned" /\ infoSource # None /\ err = None

FailedQueries == {i \in 1..Len(log) : log[i].err # None}

\* The node's inbound message is present, decoded, a jetton transfer, and
\* names a destination.
IsJettonTransfer(tr) ==
    /\ tr.InMsg # None
    /\ tr.InMsg[1].DecodedBody # None
    /\ tr.InMsg[1].DecodedBody[1].Operation = JettonTransferMsgOp
    /\ tr.InMsg[1].Destination # None

Tagged(tr, name) == name \in Range(tr.AccountInterfaces)

\* s is the pre-order of the subtree rooted at r, stated by the properties
\* that determine it: every node once, a node before its children, every
\* subtree in one piece, and the subtrees of siblings in Children order.
Position(s, x) == CHOOSE i \in 1..Len(s) : s[i] = x

IsPreOrder(h, r, s) ==
    /\ Range(s) = Subtree(h, r)
    /\ Len(s) = Cardinality(Subtree(h, r))
    /\ s[1] = r
    /\ \A t \in Subtree(h, r) :
         /\ \A k \in Range(h[t].Children) : Position(s, t) < Position(s, k)
         /\ \A x \in Subtree(h, t) :
              Position(s, x) < Position(s, t) + Cardinality(Subtree(h, t))
         /\ \A i, j \in 1..Len(h[t].Children) :
              i < j => \A x \in Subtree(h, h[t].Children[i]) :
                       \A y \in Subtree(h, h[t].Children[j]) :
                         Position(s, x) < Position(s, y)

JettonKeysInOrder(h, s) ==
    LET q == SelectSeq(s, LAMBDA t : IsJettonTransfer(h[t]))
    IN  [i \in 1..Len(q) |-> h[q[i]].InMsg[1].Destination[1]]

SaleKeysInOrder(h, s, name) ==
    LET q == SelectSeq(s, LAMBDA t : Tagged(h[t], name))
    IN  [i \in 1..Len(q) |-> h[q[i]].Account]

\* The tree without its annotations.
Frame(tr) ==
    [Account |-> tr.Account, InMsg |-> tr.InMsg, OutMsgs |-> tr.OutMsgs,
     AccountInterfaces |-> tr.AccountInterfaces, Children |-> tr.Children]

Blank(h) == [t \in DOMAIN h |-> [h[t] EXCEPT !.AdditionalInfo = None]]

\* C1: when a query of a call with a non-nil source fails, the call returns
\* the error of the first failing query and every node, annotated by an
\* earlier run or not, is as the call received it.
C1_FailureLeavesTreeUntouched ==
    (pc = "returned" /\ infoSource # None /\ FailedQueries # {}) =>
        /\ err = log[CHOOSE i \in FailedQueries :
                        \A j \in FailedQueries : i <= j].err
        /\ heap = entry

C1_Witness ==
    /\ pc = "returned" /\ infoSource # None
    /\ Len(log) = 4 /\ log[4].err = Some("source unavailable")
    /\ lastOK # None
    /\ Len(heap) >= 2
    /\ \E t \in DOMAIN heap : /\ heap[t].AdditionalInfo # None
                              /\ heap[t].AdditionalInfo[1].JettonMaster # None

\* C2: a call with a nil source returns no error, issues no query and leaves
\* every node as it was.
C2_NilSourceIsNoOp ==
    (pc = "returned" /\ infoSource = None) =>
        /\ err = None
        /\ log = <<>>
        /\ heap = entry

C2_Witness ==
    /\ pc = "returned" /\ infoSource = None
    /\ Len(heap) >= 2
    /\ heap[root].AdditionalInfo # None
    /\ heap[root].AdditionalInfo[1].NftSaleContract # None

\* C3: countUncompleted of a node is the sum of len(OutMsgs) over the nodes of
\* its subtree, and InProgress is true exactly when that sum is not zero.
C3_CountIsSubtreeSum ==
    /\ \A t \in DOMAIN heap :
         /\ countUncompleted(heap, t) = SumOutMsgs(heap, Subtree(heap, t))
         /\ InProgress(heap, t) <=>
              (\E u \in Subtree(heap, t) : heap[u].OutMsgs # <<>>)
    /\ progress # None =>
         progress[1].result =
            (SumOutMsgs(heap, Subtree(heap, progress[1].trace)) # 0)

C3_Witness ==
    /\ progress = Some([trace |-> root, result |-> TRUE])
    /\ heap[root].OutMsgs = <<>>
    /\ countUncompleted(heap, root) = 3
    /\ \E t \in DOMAIN heap : \E k \in Range(heap[t].Children) :
         /\ t # root
         /\ heap[t].OutMsgs # <<>>
         /\ Len(heap[k].OutMsgs) = 2

\* C4: after a successful run, a node tagged with both sale interfaces whose
\* account has different sale data in both answers carries the basic one.
C4_BasicSaleWins ==
    Successful =>
        \A t \in DOMAIN heap :
            (/\ Tagged(heap[t], NftSaleGetgems)
             /\ Tagged(heap[t], NftSale)
             /\ heap[t].Account \in DOMAIN source.getGems
             /\ heap[t].Account \in DOMAIN source.basicNftSales
             /\ source.getGems[heap[t].Account]
                    # source.basicNftSales[heap[t].Account])
            => /\ heap[t].AdditionalInfo # None
               /\ heap[t].AdditionalInfo[1].NftSaleContract
                    = Some(source.basicNftSales[heap[t].Account])
               /\ heap[t].AdditionalInfo[1].NftSaleContract
                    # Some(source.getGems[heap[t].Account])

C4_Witness ==
    /\ Successful
    /\ \E t \in DOMAIN heap :
         /\ heap[t].AccountInterfaces = <<NftSale, NftSaleGetgems>>
         /\ heap[t].Account \in DOMAIN source.getGems
         /\ heap[t].Account \in DOMAIN source.basicNftSales
         /\ source.getGems[heap[t].Account]
                # source.basicNftSales[heap[t].Account]
         /\ heap[t].AdditionalInfo[1].NftSaleContract
                = Some(source.basicNftSales[heap[t].Account])

\* C5: after a successful run every node is annotated; JettonMaster is set
\* exactly for a jetton transfer whose destination the masters answer holds,
\* to the master held; NftSaleContract is unset when no answer of a sale
\* interface of the node holds its account.
C5_AnnotationContent ==
    Successful =>
        \A t \in Subtree(heap, root) :
            /\ heap[t].AdditionalInfo # None
            /\ LET tr == heap[t]
                   ai == tr.AdditionalInfo[1]
                   resolved == /\ IsJettonTransfer(tr)
                               /\ tr.InMsg[1].Destination[1]
                                    \in DOMAIN source.masters
               IN  /\ (ai.JettonMaster # None) <=> resolved
                   /\ resolved =>
                        ai.JettonMaster =
                           Some(source.masters[tr.InMsg[1].Destination[1]])
                   /\ (/\ Tagged(tr, NftSaleGetgems) =>
                            tr.Account \notin DOMAIN source.getGems
                       /\ Tagged(tr, NftSale) =>
                            tr.Account \notin DOMAIN source.basicNftSales)
                      => ai.NftSaleContract = None

C5_Witness ==
    /\ Successful
    /\ entry[root].AdditionalInfo = StaleInfo
    /\ heap[root].AdditionalInfo[1].JettonMaster # None
    /\ heap[root].AdditionalInfo[1].NftSaleContract = None
    /\ Tagged(heap[root], NftSale)
    /\ Tagged(heap[root], NftSaleGetgems)

\* C6: a successful run leaves on every node what the last successful run
\* left there, and what it would leave on the tree without any annotation.
C6_Idempotent ==
    [][(pc = "annotate" /\ pc' = "returned") =>
          /\ lastOK # None =>
                \A t \in DOMAIN heap :
                    heap'[t].AdditionalInfo = lastOK[1][t].AdditionalInfo
          /\ heap' = visitAnnotate(Blank(heap), root, source.masters,
                                   source.getGems, source.basicNftSales)]_vars

C6_Witness ==
    /\ Successful
    /\ lastOK # None
    /\ entry = lastOK[1]
    /\ heap = entry
    /\ Len(heap) >= 2
    /\ \E t \in DOMAIN heap :
         /\ heap[t].AdditionalInfo[1].JettonMaster # None
         /\ heap[t].AdditionalInfo[1].NftSaleContract # None

\* C7: the events of a call are a prefix of: collecting walk, jetton-master
\* query, getgems query, basic-sale query, annotating walk; nothing follows a
\* failed query, and no annotation changes before the annotating walk.
CallOrder ==
    <<"collect", "JettonMastersForWallets", "GetGemsContracts",
      "NftSaleContracts", "annotate">>

C7_CallOrder ==
    /\ Len(log) <= Len(CallOrder)
    /\ \A i \in 1..Len(log) : log[i].op = CallOrder[i]
    /\ \A i \in 1..Len(log) : log[i].err # None => i = Len(log)
    /\ \A i \in 1..Len(log) : log[i].err # None => pc = "returned"
    /\ log # <<>> => /\ Range(log[1].keys) = Subtree(heap, root)
                     /\ Len(log[1].keys) = Cardinality(Subtree(heap, root))
    /\ Len(log) < Len(CallOrder) => heap = entry
    /\ pc \in {"JettonMastersForWallets", "GetGemsContracts",
               "NftSaleContracts", "annotate"} =>
         /\ Len(log) = Position(CallOrder, pc) - 1
         /\ infoSource # None

C7_Witness ==
    /\ Successful
    /\ Len(log) = Len(CallOrder)
    /\ Len(heap) = 3
    /\ heap # entry

\* C8: the collecting walk visits the tree in pre-order, and each query gets
\* the qualifying addresses in that order, duplicates kept: destinations of
\* jetton transfers, accounts tagged NftSaleGetgems, accounts tagged NftSale;
\* a successful run issues exactly these three queries, whatever the tree.
C8_BatchedKeys ==
    /\ log # <<>> =>
         LET order == log[1].keys
         IN  /\ log[1].op = "collect"
             /\ IsPreOrder(entry, root, order)
             /\ \A i \in 2..Len(log) :
                  /\ log[i].op = "JettonMastersForWallets" =>
                       log[i].keys = JettonKeysInOrder(entry, order)
                  /\ log[i].op = "GetGemsContracts" =>
                       log[i].keys =
                          SaleKeysInOrder(entry, order, NftSaleGetgems)
                  /\ log[i].op = "NftSaleContracts" =>
                       log[i].keys = SaleKeysInOrder(entry, order, NftSale)
    /\ Successful =>
         /\ Len(log) = Len(CallOrder)
         /\ {log[i].op : i \in 2..4} =
              {"JettonMastersForWallets", "GetGemsContracts",
               "NftSaleContracts"}
         /\ Cardinality({i \in 1..Len(log) :
                log[i].op \notin {"collect", "annotate"}}) = 3

\* Node 4 below node 2 is visited before node 3, the sibling of node 2, and
\* nodes 1 and 3 put the same account into the getgems query.
C8_Witness ==
    /\ Successful
    /\ Len(heap) = 4
    /\ heap[root].Children = <<2, 3>>
    /\ heap[2].Children = <<4>>
    /\ log[1].keys = <<1, 2, 4, 3>>
    /\ log[2].keys = <<1, 2>>
    /\ log[3].keys = <<2, 2>>
    /\ log[4].keys = <<2, 1>>

\* C9: while a node keeps an external outbound message, every trace that
\* contains the node is in progress, and it stays so whatever is matched.
KeepsExternal(h, t) ==
    \E i \in 1..Len(h[t].OutMsgs) : h[t].OutMsgs[i].Destination = None

AllContainingInProgress(h, t) ==
    \A a \in DOMAIN h : t \in Subtree(h, a) => InProgress(h, a)

C9_ExternalKeepsInProgress ==
    [][\A t \in DOMAIN heap :
          KeepsExternal(heap, t) =>
             /\ AllContainingInProgress(heap, t)
             /\ KeepsExternal(heap', t)
             /\ AllContainingInProgress(heap', t)
             /\ (progress' # None /\ t \in Subtree(heap', progress'[1].trace))
                   => progress'[1].result = TRUE]_vars

C9_Witness ==
    /\ progress = Some([trace |-> root, result |-> TRUE])
    /\ Len(heap) = 3
    /\ countUncompleted(heap, root) = 1
    /\ heap[root].OutMsgs = <<>>
    /\ \E t \in DOMAIN heap : t # root /\ KeepsExternal(heap, t)

\* C10: no step of InProgress or CollectAdditionalInfo changes anything but
\* AdditionalInfo fields, so InProgress of every node keeps its value.
C10_OnlyAnnotationsChange ==
    [][/\ DOMAIN heap' = DOMAIN heap
       /\ \A t \in DOMAIN heap :
            /\ Frame(heap'[t]) = Frame(heap[t])
            /\ InProgress(heap', t) = InProgress(heap, t)
       /\ (progress' # None /\ progress' # progress) => heap' = heap]_vars

C10_Witness ==
    /\ Successful
    /\ heap # entry
    /\ Len(heap) = 3
    /\ InProgress(heap, root)
    /\ \E t \in DOMAIN heap : heap[t].Children # <<>> /\ ~InProgress(heap, t)

====
